---- MODULE Spec2Model ----
(***************************************************************************)
(* pySim-shell: the card file-system cursor, the tree walk and the export  *)
(* script, modelled from pySim-shell.py.  The file-system engine itself    *)
(* (pySim/filesystem.py: RuntimeState, CardMF) is not part of the source   *)
(* slice and is modelled from the design document.                         *)
(***************************************************************************)
EXTENDS Integers, Sequences, FiniteSets, TLC

VARIABLES
    pc,             \* "boot", "aids", "selectmf", "idle", "done", "crashed"
    mfFiles,        \* files attached to MF by add_file, in registration order
    apps,           \* application nodes attached to MF by add_application
    aids,           \* the AIDs the `for a in aids` loop has still to visit
    detected,       \* the applications whose AID the card reported (history)
    selects_issued, \* whether a SELECT command has been issued to the card
    selected_file,  \* rs.selected_file: the cursor
    prompt,         \* app.prompt: the path labels shown in the prompt
    numeric_path,   \* app.numeric_path
    content,        \* the card's file contents
    out,            \* the lines written with poutput by the last command
    log,            \* the card commands issued by the last command
    last            \* what the last command was, and how it ended

vars == <<pc, mfFiles, apps, aids, detected, selects_issued, selected_file, prompt,
          numeric_path, content, out, log, last>>

-----------------------------------------------------------------------------
(* Bounds *)

\* failing card commands per shell command
MaxFaults == 1
\* length of the AID list the card reports
MaxAids == 2

-----------------------------------------------------------------------------
(* Labels are character sequences, as the code slices and compares them *)

N_MF == <<"M", "F">>
N_DOTDOT == <<".", ".">>
N_DF_TELECOM == <<"D", "F", ".", "T", "E", "L">>
N_DF_GSM == <<"D", "F", ".", "G", "S", "M">>
N_DF_PHONEBOOK == <<"D", "F", ".", "P", "B">>
N_ADF_USIM == <<"A", "D", "F", ".", "U", "S", "I", "M">>
N_ADF_ISIM == <<"A", "D", "F", ".", "I", "S", "I", "M">>
N_EF_ICCID == <<"E", "F", ".", "I", "C", "C", "I", "D">>
N_EF_PBR == <<"E", "F", ".", "P", "B", "R">>
N_EF_ADN == <<"E", "F", ".", "A", "D", "N">>
N_EF_IMSI == <<"E", "F", ".", "I", "M", "S", "I">>
N_EF_ACM == <<"E", "F", ".", "A", "C", "M">>
N_EF_TLV == <<"E", "F", ".", "T", "L", "V">>
N_EF_DOESNOTEXIST == <<"E", "F", ".", "N", "O", "N", "E">>
\* a name is free text: a directory and a file named without the prefix of their kind
N_GRAPHICS == <<"G", "F", "X">>
N_IMG == <<"I", "M", "G">>

\* AIDs are sequences of 7-byte chunks; `x in a` on strings is containment
AID_USIM_PREFIX == "a0000000871002"
AID_ISIM_PREFIX == "a0000000871004"
Aids == { <<AID_USIM_PREFIX, "ff">>, <<AID_USIM_PREFIX, "01">>, <<AID_ISIM_PREFIX, "ff">>,
          <<"a0000000090001", "ff">> }

Contains(a, chunk) == \E i \in 1..Len(a) : a[i] = chunk

\* the application an AID stands for
AidKind(a) ==
    IF Contains(a, AID_USIM_PREFIX) THEN "usim"
    ELSE IF Contains(a, AID_ISIM_PREFIX) THEN "isim"
    ELSE "unknown"

-----------------------------------------------------------------------------
(* The card's file system: the nodes the profile knows *)

Nodes == { "MF", "EF_ICCID", "DF_TELECOM", "DF_PHONEBOOK", "EF_PBR", "DF_GRAPHICS",
           "EF_IMG", "EF_ADN", "DF_GSM", "EF_IMSI_GSM", "EF_ACM", "ADF_USIM", "EF_IMSI_USIM",
           "EF_TLV", "ADF_ISIM" }

Kind(n) ==
    CASE n = "MF" -> "MF"
      [] n \in {"DF_TELECOM", "DF_GSM", "DF_PHONEBOOK", "DF_GRAPHICS"} -> "DF"
      [] n \in {"ADF_USIM", "ADF_ISIM"} -> "ADF"
      [] OTHER -> "EF"

NameOf(n) ==
    CASE n = "MF" -> N_MF
      [] n = "EF_ICCID" -> N_EF_ICCID
      [] n = "DF_TELECOM" -> N_DF_TELECOM
      [] n = "DF_PHONEBOOK" -> N_DF_PHONEBOOK
      [] n = "EF_PBR" -> N_EF_PBR
      [] n = "DF_GRAPHICS" -> N_GRAPHICS
      [] n = "EF_IMG" -> N_IMG
      [] n = "EF_ADN" -> N_EF_ADN
      [] n = "DF_GSM" -> N_DF_GSM
      [] n = "EF_IMSI_GSM" -> N_EF_IMSI
      [] n = "EF_ACM" -> N_EF_ACM
      [] n = "ADF_USIM" -> N_ADF_USIM
      [] n = "EF_IMSI_USIM" -> N_EF_IMSI
      [] n = "EF_TLV" -> N_EF_TLV
      [] n = "ADF_ISIM" -> N_ADF_ISIM

\* the numeric label: the file identifier, or the AID for an application
FidOf(n) ==
    CASE n = "MF" -> <<"3", "f", "0", "0">>
      [] n = "EF_ICCID" -> <<"2", "f", "e", "2">>
      [] n = "DF_TELECOM" -> <<"7", "f", "1", "0">>
      [] n = "DF_PHONEBOOK" -> <<"5", "f", "3", "a">>
      [] n = "EF_PBR" -> <<"4", "f", "3", "0">>
      [] n = "DF_GRAPHICS" -> <<"5", "f", "5", "0">>
      [] n = "EF_IMG" -> <<"4", "f", "2", "0">>
      [] n = "EF_ADN" -> <<"6", "f", "3", "a">>
      [] n = "DF_GSM" -> <<"7", "f", "2", "0">>
      [] n = "EF_IMSI_GSM" -> <<"6", "f", "0", "7">>
      [] n = "EF_ACM" -> <<"6", "f", "3", "9">>
      [] n = "ADF_USIM" -> <<AID_USIM_PREFIX>>
      [] n = "EF_IMSI_USIM" -> <<"6", "f", "0", "7">>
      [] n = "EF_TLV" -> <<"6", "f", "d", "4">>
      [] n = "ADF_ISIM" -> <<AID_ISIM_PREFIX>>

ParentOf(n) ==
    CASE n \in {"EF_PBR"} -> "DF_PHONEBOOK"
      [] n \in {"EF_IMG"} -> "DF_GRAPHICS"
      [] n \in {"DF_PHONEBOOK", "DF_GRAPHICS", "EF_ADN"} -> "DF_TELECOM"
      [] n \in {"EF_IMSI_GSM", "EF_ACM"} -> "DF_GSM"
      [] n \in {"EF_IMSI_USIM", "EF_TLV"} -> "ADF_USIM"
      [] OTHER -> "MF"

\* the files below the profile's DFs and ADFs, by ascending file identifier
StaticChildren(n) ==
    CASE n = "DF_TELECOM" -> <<"DF_PHONEBOOK", "DF_GRAPHICS", "EF_ADN">>
      [] n = "DF_PHONEBOOK" -> <<"EF_PBR">>
      [] n = "DF_GRAPHICS" -> <<"EF_IMG">>
      [] n = "DF_GSM" -> <<"EF_IMSI_GSM", "EF_ACM">>
      [] n = "ADF_USIM" -> <<"EF_IMSI_USIM", "EF_TLV">>
      [] OTHER -> <<>>

StructureOf(n) ==
    CASE n \in {"EF_ICCID", "EF_IMSI_GSM", "EF_IMSI_USIM", "EF_IMG"} -> "transparent"
      [] n \in {"EF_PBR", "EF_ADN"} -> "linear_fixed"
      [] n = "EF_ACM" -> "cyclic"
      [] n = "EF_TLV" -> "ber_tlv"
      [] OTHER -> "no_info_given"

EFs == { n \in Nodes : Kind(n) = "EF" }
RecordEFs == { n \in EFs : StructureOf(n) \in {"linear_fixed", "cyclic"} }

Data == { "aa", "bb" }

\* the contents a card can hold: a blob per transparent file, two records per
\* record file (record 1 of a cyclic file is the most recently written one)
InitialContent(acm) ==
    [ n \in EFs |->
        CASE n = "EF_ACM" -> acm
          [] n = "EF_PBR" -> <<"01", "02">>
          [] n = "EF_ADN" -> <<"03", "04">>
          [] n = "EF_ICCID" -> <<"05">>
          [] n = "EF_IMSI_GSM" -> <<"06">>
          [] n = "EF_IMSI_USIM" -> <<"07">>
          [] n = "EF_IMG" -> <<"09">>
          [] OTHER -> <<"08">> ]

-----------------------------------------------------------------------------
(* pySim.filesystem, from the design document *)

\* CardMF.add_file
add_file(files, f) == Append(files, f)

\* every call attaches a node, also for an application that is attached
add_application_again(as, app) == Append(as, app)

\* CardMF.add_application: an application is attached once per AID
add_application(as, app) ==
    IF \E i \in 1..Len(as) : as[i] = app THEN as ELSE Append(as, app)

\* the children of a node: for MF the profile's EFs, the added DFs, the applications
ChildrenOf(n) ==
    IF n = "MF" THEN <<"EF_ICCID">> \o mfFiles \o apps ELSE StaticChildren(n)

\* CardFile.get_selectable_names(flags): the named children, applications with APPS
get_selectable_names(n, flags) ==
    LET ch == ChildrenOf(n)
        keep(c) == /\ "NAMES" \in flags
                   /\ (Kind(c) = "ADF" => "APPS" \in flags)
        F[i \in 0..Len(ch)] ==
            IF i = 0 THEN <<>>
            ELSE IF keep(ch[i]) THEN Append(F[i - 1], NameOf(ch[i])) ELSE F[i - 1]
    IN  F[Len(ch)]

\* CardFile.fully_qualified_path(prefer_name): the labels from MF down to n
RECURSIVE fully_qualified_path(_, _)
fully_qualified_path(n, prefer_name) ==
    LET label == IF prefer_name THEN NameOf(n) ELSE FidOf(n)
    IN  IF n = "MF" THEN <<label>>
        ELSE Append(fully_qualified_path(ParentOf(n), prefer_name), label)

\* the decoded FCP a successful SELECT returns
FcpOf(n) ==
    [ file_descriptor |->
        [ structure |-> StructureOf(n),
          num_of_rec |-> IF n \in RecordEFs THEN Len(content[n]) ELSE 0 ] ]

-----------------------------------------------------------------------------
(* One shell command runs against a handler state:                         *)
(*   cur    rs.selected_file                                               *)
(*   out    the lines written so far                                       *)
(*   log    the card commands issued so far: the operation, the file it    *)
(*          was issued from, its target and the status word returned       *)
(*   err    "none", or the exception that is propagating                   *)
(*   faults the positions of the card commands that fail                   *)
(*   fcp    the value the last rs.select returned                          *)
(*   result the value the last read returned                               *)

NoFcp == [ file_descriptor |-> [ structure |-> "no_info_given", num_of_rec |-> 0 ] ]

Enter(cur, faults) ==
    [ cur |-> cur, out |-> <<>>, log |-> <<>>, err |-> "none", faults |-> faults,
      fcp |-> NoFcp, result |-> "" ]

\* the card: the command at a position in `faults` ends with an error status
\* word, a SELECT of a file that is not there with "file not found"
Issue(st, from, op, target, idx) ==
    LET sw == IF (Len(st.log) + 1) \in st.faults THEN "6f00"
              ELSE IF target = "none" THEN "6a82"
              ELSE "9000"
    IN  [ st EXCEPT !.log = Append(@, [ op |-> op, from |-> from, target |-> target,
                                        idx |-> idx, sw |-> sw ]) ]

LastSw(st) == st.log[Len(st.log)].sw

\* the node a path element names, seen from node n: the parent reference, the
\* root, a child by file identifier, a child by name; "none" if there is none.
\* An EF is no directory: seen from an EF, the files of its directory are
\* those that can be named, as on the card
Lookup(n, e) ==
    LET ch == ChildrenOf(IF Kind(n) = "EF" THEN ParentOf(n) ELSE n)
        byFid == { i \in 1..Len(ch) : FidOf(ch[i]) = e }
        byName == { i \in 1..Len(ch) : NameOf(ch[i]) = e }
        first(S) == CHOOSE i \in S : \A j \in S : i <= j
    IN  IF e = N_DOTDOT THEN (IF n = "MF" THEN "none" ELSE ParentOf(n))
        ELSE IF e = N_MF \/ e = FidOf("MF") THEN "MF"
        ELSE IF byFid # {} THEN ch[first(byFid)]
        ELSE IF byName # {} THEN ch[first(byName)]
        ELSE "none"

\* RuntimeState.select(path): element by element, one SELECT each; the cursor
\* moves only when the whole path resolved
RECURSIVE Resolve(_, _, _, _)

\* after the SELECT of one element: an error, or on to the next element
Resolved(st1, path, i) ==
    IF LastSw(st1) = "6a82" THEN [ st1 EXCEPT !.err = "PathNotFound" ]
    ELSE IF LastSw(st1) # "9000" THEN [ st1 EXCEPT !.err = "StatusWordError" ]
    ELSE Resolve(st1, st1.log[Len(st1.log)].target, path, i + 1)

Resolve(st, n, path, i) ==
    IF i > Len(path) THEN [ st EXCEPT !.cur = n, !.fcp = FcpOf(n) ]
    ELSE Resolved(Issue(st, n, "select", Lookup(n, path[i]), 0), path, i)

RsSelect(st, path) == Resolve(st, st.cur, path, 1)

\* the value a read returns, or the error of its status word
ReadResult(st1, value) ==
    IF LastSw(st1) = "9000" THEN [ st1 EXCEPT !.result = value ]
    ELSE [ st1 EXCEPT !.err = "StatusWordError" ]

\* RuntimeState.read_binary()
read_binary(st) ==
    ReadResult(Issue(st, st.cur, "read_binary", st.cur, 0), content[st.cur][1])

\* RuntimeState.read_record(r)
read_record(st, r) ==
    ReadResult(Issue(st, st.cur, "read_record", st.cur, r), content[st.cur][r])

-----------------------------------------------------------------------------
(* Text *)

\* '/'.join(path_list)
RECURSIVE Join(_)
Join(path) ==
    IF Len(path) = 0 THEN <<>>
    ELSE IF Len(path) = 1 THEN path[1]
    ELSE path[1] \o <<"/">> \o Join(Tail(path))

\* "%d" % r
Digit(d) == <<"0", "1", "2", "3", "4", "5", "6", "7", "8", "9">>[d + 1]
RECURSIVE DecStr(_)
DecStr(r) == IF r < 10 THEN <<Digit(r)>> ELSE Append(DecStr(r \div 10), Digit(r % 10))

\* "  " * indent
RECURSIVE Spaces(_)
Spaces(indent) == IF indent = 0 THEN <<>> ELSE <<" ", " ">> \o Spaces(indent - 1)

\* f[0:k]
Slice(f, k) == SubSeq(f, 1, IF Len(f) < k THEN Len(f) ELSE k)

\* poutput: a line is its first word and the arguments that follow it; `at` notes
\* the file that was selected when the line was written
Put(st, head, args) ==
    [ st EXCEPT !.out = Append(@, [ head |-> head, args |-> args, at |-> st.cur ]) ]

-----------------------------------------------------------------------------
(* Iso7816Commands.export *)

\* for r in range(1, num_of_rec + 1): read_record(r), then the update_record line
RECURSIVE ExportRecords(_, _, _)

\* a failed read_record is issued again
ExportRecordRetry(s, r, num_of_rec) ==
    IF s.err # "none" THEN ExportRecords([ s EXCEPT !.err = "none" ], r, num_of_rec)
    ELSE ExportRecords(Put(s, "update_record", <<DecStr(r), <<s.result>>>>),
                       r + 1, num_of_rec)

ExportRecord(s, r, num_of_rec) ==
    IF s.err # "none" THEN s
    ELSE ExportRecords(Put(s, "update_record", <<DecStr(r), <<s.result>>>>),
                       r + 1, num_of_rec)

\* for r in range(1, num_of_rec): the last record is left out
ExportRecordsShort(st, r, num_of_rec) ==
    IF r >= num_of_rec THEN st
    ELSE ExportRecord(read_record(st, r), r, num_of_rec)

ExportRecords(st, r, num_of_rec) ==
    IF r > num_of_rec THEN st
    ELSE ExportRecord(read_record(st, r), r, num_of_rec)

\* for f in path_list: the select lines
RECURSIVE ExportSelects(_, _, _)

\* for f in path_list[1:]: the path without its root
ExportSelectsRelative(st, path_list, i) ==
    IF i > Len(path_list) THEN st
    ELSE IF i = 1 THEN ExportSelects(st, path_list, 2)
    ELSE ExportSelects(Put(st, "select", <<path_list[i]>>), path_list, i + 1)

ExportSelects(st, path_list, i) ==
    IF i > Len(path_list) THEN st
    ELSE ExportSelects(Put(st, "select", <<path_list[i]>>), path_list, i + 1)

\* the "# file" and "# structure" lines
ExportHeader(s, path_list, path_list_fid, structure) ==
    Put(Put(s, "#", << <<"file">>, path_list[Len(path_list)],
                       path_list_fid[Len(path_list_fid)] >>),
        "#", << <<"structure">>, <<structure>> >>)

\* if structure == 'transparent': read_binary, then the update_binary line
ExportBinary(r) ==
    IF r.err # "none" THEN r ELSE Put(r, "update_binary", << <<r.result>> >>)

ExportContent(s, fd) ==
    IF fd.structure = "transparent" THEN ExportBinary(read_binary(s))
    ELSE IF fd.structure = "cyclic" \/ fd.structure = "linear_fixed"
    THEN ExportRecords(s, 1, fd.num_of_rec)
    ELSE s

\* fcp_dec = self._cmd.rs.select("..", self._cmd), unless an exception is on its way
ExportLeave(s) == IF s.err = "none" THEN RsSelect(s, <<N_DOTDOT>>) ELSE s

\* the try block: what follows the select, if it returned
ExportTry(s) ==
    IF s.err # "none" THEN s
    ELSE ExportLeave(
           ExportContent(
             ExportSelects(
               ExportHeader(s, fully_qualified_path(s.cur, TRUE),
                            fully_qualified_path(s.cur, FALSE),
                            s.fcp.file_descriptor.structure),
               fully_qualified_path(s.cur, TRUE), 1),
             s.fcp.file_descriptor))

\* except Exception as e: the "# bad file" line; then the closing "#" line
ExportExcept(s, filename) ==
    Put(IF s.err # "none"
        THEN Put([ s EXCEPT !.err = "none" ], "#",
                 << <<"bad file">>, Join(filename), <<s.err>> >>)
        ELSE s,
        "#", <<>>)

\* the "# directory" line
ExportDirectory(st) ==
    Put(st, "#", << <<"directory">>, Join(fully_qualified_path(st.cur, TRUE)),
                    Join(fully_qualified_path(st.cur, FALSE)) >>)

export(st, filename) ==
    ExportExcept(ExportTry(RsSelect(ExportDirectory(st), filename)), filename)

-----------------------------------------------------------------------------
(* Iso7816Commands.walk *)

\* if f[0:2] == "DF" or f[0:3] == 'ADF'
IsDirName(f) == Slice(f, 2) = <<"D", "F">> \/ Slice(f, 3) = <<"A", "D", "F">>

\* the name of every listed file is written, with an action or without
WalkListsNameAlways(action) == TRUE

\* if not action: the name of every listed file is written
WalkListsName(action) == ~action

RECURSIVE walk(_, _, _)
RECURSIVE WalkFiles(_, _, _, _, _)

\* self._cmd.poutput("  " * indent + str(f))
WalkList(st, f, indent, action) ==
    IF WalkListsName(action) THEN Put(st, "name", <<Spaces(indent) \o f>>) ELSE st

\* self.walk(indent, action): the level is not counted
WalkEnterSameLevel(a, indent, action) ==
    IF a.err = "none" THEN walk(a, indent, action) ELSE a

\* self.walk(indent + 1, action), if the select returned
WalkEnter(a, indent, action) ==
    IF a.err = "none" THEN walk(a, indent + 1, action) ELSE a

\* self._cmd.rs.select("..", self._cmd), if the inner walk returned
WalkLeave(b) == IF b.err = "none" THEN RsSelect(b, <<N_DOTDOT>>) ELSE b

\* the body of `for f in files` for one file
WalkFile(s0, f, indent, action) ==
    IF IsDirName(f) THEN WalkLeave(WalkEnter(RsSelect(s0, <<f>>), indent, action))
    ELSE IF action THEN export(s0, <<f>>)
    ELSE s0

\* `for f in files`, from the i-th file on
WalkFiles(st, files, i, indent, action) ==
    IF st.err # "none" \/ i > Len(files) THEN st
    ELSE WalkFiles(WalkFile(WalkList(st, files[i], indent, action), files[i],
                            indent, action),
                   files, i + 1, indent, action)

walk(st, indent, action) ==
    WalkFiles(st, get_selectable_names(st.cur, {"NAMES", "APPS"}), 1, indent, action)

-----------------------------------------------------------------------------
(* Inputs *)

\* the sets of at most k failing positions among the first n card commands
RECURSIVE FaultSetsUpTo(_, _)
FaultSetsUpTo(k, n) ==
    IF k = 0 THEN { {} }
    ELSE LET P == FaultSetsUpTo(k - 1, n)
         IN  P \cup { s \cup {x} : s \in P, x \in 1..n }

FaultSets(n) == FaultSetsUpTo(MaxFaults, n)

\* The card commands one shell command can issue: a select one per path
\* element; an export of one file its selects, one read per record and the
\* final select; a walk two selects per directory below the cursor and an
\* export per file
MaxNumRec == CHOOSE k \in { Len(content[n]) : n \in EFs } : \A n \in EFs : Len(content[n]) <= k
ExportCmds(filename) == Len(filename) + MaxNumRec + 1

RECURSIVE WalkCmds(_)
WalkCmds(n) ==
    LET ch == ChildrenOf(n)
        F[i \in 0..Len(ch)] ==
            IF i = 0 THEN 0
            ELSE F[i - 1] + (IF Kind(ch[i]) = "EF" THEN ExportCmds(<<ch[i]>>)
                             ELSE 2 + WalkCmds(ch[i]))
    IN  F[Len(ch)]

RECURSIVE SeqsUpTo(_, _)
SeqsUpTo(S, k) ==
    IF k = 0 THEN { <<>> }
    ELSE LET P == SeqsUpTo(S, k - 1)
         IN  P \cup { Append(q, x) : q \in P, x \in S }

\* the paths typed after `select`
SelectPaths ==
    { <<N_DOTDOT>>, <<N_MF>>, <<N_DF_TELECOM>>, <<N_DF_GSM>>, <<N_DF_PHONEBOOK>>,
      <<N_ADF_USIM>>, <<N_GRAPHICS>>, <<N_EF_ADN>>, <<N_EF_IMSI>>, <<N_EF_DOESNOTEXIST>>,
      <<FidOf("DF_GSM")>>, <<N_DF_TELECOM, N_EF_ADN>>,
      <<N_DF_GSM, N_EF_DOESNOTEXIST>>, <<N_MF, N_ADF_USIM, N_EF_IMSI>> }

\* the paths given to `export --filename`
ExportPaths ==
    { <<N_EF_ADN>>, <<N_EF_ACM>>, <<N_EF_IMSI>>, <<N_EF_DOESNOTEXIST>>,
      <<N_DF_TELECOM, N_EF_ADN>> }

NoLast == [ cmd |-> "none", arg |-> <<>>, before |-> "MF", prompt_before |-> <<>>,
            err |-> "none" ]

-----------------------------------------------------------------------------
(* PysimApp *)

\* update_prompt: the path shown between the parentheses of the prompt
PromptFor(cur, numeric) == Join(fully_qualified_path(cur, ~numeric))

-----------------------------------------------------------------------------
(* __main__ *)

Init ==
    /\ pc = "boot"
    /\ mfFiles = <<>>
    /\ apps = <<>>
    /\ aids = <<>>
    /\ detected = {}
    /\ selects_issued = FALSE
    /\ selected_file = "MF"
    /\ prompt = <<>>
    /\ numeric_path = FALSE
    /\ content \in { InitialContent(acm) : acm \in SeqsUpTo(Data, 2) \ SeqsUpTo(Data, 1) }
    /\ out = <<>>
    /\ log = <<>>
    /\ last = NoLast

\* rs.mf.add_file(DF_TELECOM()) ... aids = card.read_aids(), and the first line
MainStart ==
    /\ pc = "boot"
    /\ mfFiles' = add_file(add_file(mfFiles, "DF_TELECOM"), "DF_GSM")
    /\ prompt' = PromptFor(selected_file, numeric_path)
    /\ aids' \in SeqsUpTo(Aids, MaxAids)
    /\ detected' = { "ADF_USIM" : i \in { j \in 1..Len(aids') : AidKind(aids'[j]) = "usim" } }
                   \cup { "ADF_ISIM" : i \in { j \in 1..Len(aids') : AidKind(aids'[j]) = "isim" } }
    /\ out' = IF Len(aids') > 0
              THEN << [ head |-> "AIDs on card:", args |-> <<>>, at |-> "MF" ] >>
              ELSE << [ head |-> "error: could not determine card applications",
                        args |-> <<>>, at |-> "MF" ] >>
    /\ pc' = "aids"
    /\ UNCHANGED <<apps, selects_issued, selected_file, numeric_path, content,
                   log, last>>

\* the body of `for a in aids`
MainAid ==
    /\ pc = "aids"
    /\ Len(aids) > 0
    /\ LET a == Head(aids)
       IN  IF Contains(a, AID_USIM_PREFIX)
           THEN /\ out' = Append(out, [ head |-> " USIM:", args |-> <<a>>, at |-> "MF" ])
                /\ apps' = add_application(apps, "ADF_USIM")
           ELSE IF Contains(a, AID_ISIM_PREFIX)
           THEN /\ out' = Append(out, [ head |-> " ISIM:", args |-> <<a>>, at |-> "MF" ])
                /\ apps' = add_application(apps, "ADF_ISIM")
           ELSE /\ out' = Append(out, [ head |-> " unknown application:", args |-> <<a>>, at |-> "MF" ])
                /\ apps' = apps
    /\ aids' = Tail(aids)
    /\ UNCHANGED <<pc, mfFiles, detected, selects_issued, selected_file, prompt,
                   numeric_path, content, log, last>>

\* rs.select('MF', app) ahead of the loop over the AIDs
MainLoopSkipped == TRUE

\* the loop over the AIDs has ended
MainLoopDone == Len(aids) = 0

\* the uncaught exception of rs.select ends the program
MainSelected(st) ==
    /\ selected_file' = st.cur
    /\ log' = st.log
    /\ pc' = IF st.err = "none" THEN "idle" ELSE "crashed"
    /\ last' = [ NoLast EXCEPT !.cmd = "main", !.err = st.err ]

\* rs.select('MF', app), then app.cmdloop()
MainSelectMF ==
    /\ pc = "aids"
    /\ MainLoopDone
    /\ \E faults \in FaultSets(1) :
         MainSelected(RsSelect(Enter(selected_file, faults), <<N_MF>>))
    /\ selects_issued' = TRUE
    /\ UNCHANGED <<mfFiles, apps, aids, detected, prompt, numeric_path, content, out>>

-----------------------------------------------------------------------------
(* The shell commands *)

Record(cmd, arg, st) ==
    [ cmd |-> cmd, arg |-> arg, before |-> selected_file, prompt_before |-> prompt,
      err |-> st.err ]

\* update_prompt() and poutput(json.dumps(fcp_dec)) in any case
SelectReportAlways(st) ==
    [ prompt |-> PromptFor(st.cur, numeric_path),
      out |-> Put(st, "json", << <<st.fcp.file_descriptor.structure>> >>).out ]

\* update_prompt() and poutput(json.dumps(fcp_dec)) are reached only when
\* rs.select returned
SelectReport(st) ==
    IF st.err = "none"
    THEN [ prompt |-> PromptFor(st.cur, numeric_path),
           out |-> Put(st, "json", << <<st.fcp.file_descriptor.structure>> >>).out ]
    ELSE [ prompt |-> prompt, out |-> st.out ]

\* what a command leaves behind
Selected(path, st) ==
    /\ selected_file' = st.cur
    /\ log' = st.log
    /\ last' = Record("select", path, st)
    /\ prompt' = SelectReport(st).prompt
    /\ out' = SelectReport(st).out

Walked(cmd, arg, st) ==
    /\ selected_file' = st.cur
    /\ log' = st.log
    /\ out' = st.out
    /\ last' = Record(cmd, arg, st)
    /\ prompt' = prompt

\* do_select
do_select(path, faults) == Selected(path, RsSelect(Enter(selected_file, faults), path))

\* do_tree: self.walk()
do_tree(faults) == Walked("tree", <<>>, walk(Enter(selected_file, faults), 0, FALSE))

\* do_export: one file with --filename, the whole tree without
do_export(filename, faults) ==
    Walked("export", filename,
           IF Len(filename) > 0
           THEN export(Enter(selected_file, faults), filename)
           ELSE walk(Enter(selected_file, faults), 0, TRUE))

Select ==
    /\ pc = "idle"
    /\ \E path \in SelectPaths : \E faults \in FaultSets(Len(path)) : do_select(path, faults)
    /\ pc' = "done"
    /\ UNCHANGED <<mfFiles, apps, aids, detected, selects_issued, numeric_path, content>>

Tree ==
    /\ pc = "idle"
    /\ \E faults \in FaultSets(WalkCmds(selected_file)) : do_tree(faults)
    /\ pc' = "done"
    /\ UNCHANGED <<mfFiles, apps, aids, detected, selects_issued, numeric_path, content>>

Export ==
    /\ pc = "idle"
    /\ \E filename \in ExportPaths \cup { <<>> } :
         \E faults \in FaultSets(IF Len(filename) > 0 THEN ExportCmds(filename)
                                 ELSE WalkCmds(selected_file)) :
           do_export(filename, faults)
    /\ pc' = "done"
    /\ UNCHANGED <<mfFiles, apps, aids, detected, selects_issued, numeric_path, content>>

\* set numeric_path: the setting, and _onchange_numeric_path when it changed
SetNumericPath ==
    /\ pc = "idle"
    /\ \E new \in BOOLEAN :
         /\ numeric_path' = new
         /\ prompt' = IF new # numeric_path THEN PromptFor(selected_file, new) ELSE prompt
         /\ last' = [ cmd |-> "set", arg |-> <<>>, before |-> selected_file,
                      prompt_before |-> prompt, err |-> "none" ]
    /\ out' = <<>>
    /\ log' = <<>>
    /\ pc' = "done"
    /\ UNCHANGED <<mfFiles, apps, aids, detected, selects_issued, selected_file, content>>

\* cmdloop: the command is over, the prompt is shown again
Prompt ==
    /\ pc = "done"
    /\ pc' = "idle"
    /\ out' = <<>>
    /\ log' = <<>>
    /\ last' = NoLast
    /\ UNCHANGED <<mfFiles, apps, aids, detected, selects_issued, selected_file, prompt,
                   numeric_path, content>>

Next ==
    \/ MainStart
    \/ MainAid
    \/ MainSelectMF
    \/ Select
    \/ Tree
    \/ Export
    \/ SetNumericPath
    \/ Prompt

Spec == Init /\ [][Next]_vars

-----------------------------------------------------------------------------
(* What the claims speak about *)

\* the last command was a walk: `tree`, or `export` without --filename
WalkEnded == last.cmd = "tree" \/ (last.cmd = "export" /\ Len(last.arg) = 0)
ExportAllEnded == last.cmd = "export" /\ Len(last.arg) = 0

\* the card commands that ended with an error status word of the card's own
Faulted == { i \in 1..Len(log) : log[i].sw = "6f00" }

\* a SELECT from a directory into one of its DF/ADF children
SelectsInto(i) ==
    /\ log[i].op = "select"
    /\ log[i].target \in Nodes
    /\ Kind(log[i].target) \in {"DF", "ADF"}
    /\ log[i].from = ParentOf(log[i].target)

\* the position of a node among the children of its parent
PositionOf(n) ==
    LET ch == ChildrenOf(ParentOf(n))
    IN  CHOOSE i \in 1..Len(ch) : ch[i] = n

\* the files below a node
RECURSIVE Below(_)
Below(n) ==
    LET ch == ChildrenOf(n)
    IN  UNION { {ch[i]} \cup Below(ch[i]) : i \in 1..Len(ch) }

\* the chain of nodes from MF down to a node
RECURSIVE ChainTo(_)
ChainTo(n) == IF n = "MF" THEN <<n>> ELSE Append(ChainTo(ParentOf(n)), n)

\* the command lines that restore one file: a select per node of its chain,
\* then its content
SelectScript(n) == [ i \in 1..Len(ChainTo(n)) |->
                       [ head |-> "select", args |-> << NameOf(ChainTo(n)[i]) >> ] ]
UpdateScript(n) ==
    IF StructureOf(n) = "transparent"
    THEN << [ head |-> "update_binary", args |-> << <<content[n][1]>> >> ] >>
    ELSE IF StructureOf(n) \in {"linear_fixed", "cyclic"}
    THEN [ r \in 1..Len(content[n]) |->
             [ head |-> "update_record", args |-> << DecStr(r), <<content[n][r]>> >> ] ]
    ELSE <<>>

\* a line without the note of where it was written
Bare(l) == [ head |-> l.head, args |-> l.args ]

\* the lines occur in the output, one after the other
OccursIn(lines, output) ==
    \E k \in 0..(Len(output) - Len(lines)) :
        \A j \in 1..Len(lines) : Bare(output[k + j]) = lines[j]

IsBadFileLine(l) == l.head = "#" /\ Len(l.args) > 0 /\ l.args[1] = <<"bad file">>
IsDirectoryLine(l) == l.head = "#" /\ Len(l.args) > 0 /\ l.args[1] = <<"directory">>

\* the directory line that opens the export a line belongs to
OpeningLine(i) == CHOOSE k \in 1..i : /\ IsDirectoryLine(out[k])
                                     /\ \A m \in (k + 1)..i : ~IsDirectoryLine(out[m])

-----------------------------------------------------------------------------
(* C1: when a walk ends, normally or by an error in a subtree, the selected
   file is the one that was selected when the walk began *)
C1_WalkRestoresCursor == WalkEnded => selected_file = last.before

(* C3: when the SELECT into a DF/ADF child fails during a walk, the walk goes
   on with the remaining siblings of that child and ends without an error *)
C3_WalkContinuesAfterFailedSelect ==
    WalkEnded =>
        \A i \in Faulted :
            SelectsInto(i) =>
                /\ last.err = "none"
                /\ LET ch == ChildrenOf(log[i].from)
                   IN  \A k \in (PositionOf(log[i].target) + 1)..Len(ch) :
                           Kind(ch[k]) \in {"DF", "ADF"} =>
                               \E j \in (i + 1)..Len(log) :
                                   log[j].op = "select" /\ log[j].target = ch[k]

(* C2: in a whole-tree export in which the select or a read of exactly one EF
   fails, every other EF below the starting directory is exported with all of
   its select and update lines, the failing EF yields a bad-file comment, and
   the export ends without an error *)
C2_OtherFilesStillExported ==
    ExportAllEnded /\ Cardinality(Faulted) = 1 =>
        \A i \in Faulted :
            log[i].target \in EFs =>
                /\ last.err = "none"
                /\ \E k \in 1..Len(out) : IsBadFileLine(out[k])
                /\ \A e \in (Below(last.before) \cap EFs) \ {log[i].target} :
                       OccursIn(SelectScript(e) \o UpdateScript(e), out)

(* C4: the export of a file that fails (its closing line is a bad-file
   comment) consists of comment lines only *)
C4_FailedExportOnlyComments ==
    last.cmd = "export" =>
        \A i \in 1..Len(out) :
            IsBadFileLine(out[i]) =>
                \A j \in OpeningLine(i)..i : out[j].head = "#"

-----------------------------------------------------------------------------
(* Replaying an export script against a card (the import the design document
   names): select moves the cursor, update_binary and update_record write the
   selected file; a cyclic file takes every update_record as its newest record *)

DigitValue(c) == CHOOSE d \in 0..9 : Digit(d) = c

\* int(s)
RECURSIVE ParseDec(_)
ParseDec(s) ==
    IF Len(s) = 0 THEN 0
    ELSE 10 * ParseDec(SubSeq(s, 1, Len(s) - 1)) + DigitValue(s[Len(s)])

ReplaySelect(card, label) ==
    IF Lookup(card.cur, label) = "none" THEN card
    ELSE [ card EXCEPT !.cur = Lookup(card.cur, label) ]

ReplayUpdateBinary(card, data) ==
    IF card.cur \in EFs /\ StructureOf(card.cur) = "transparent"
    THEN [ card EXCEPT !.content[card.cur] = <<data>> ]
    ELSE card

ReplayUpdateRecord(card, r, data) ==
    IF card.cur \notin RecordEFs THEN card
    ELSE IF StructureOf(card.cur) = "cyclic"
    THEN [ card EXCEPT !.content[card.cur] = <<data>> \o SubSeq(@, 1, Len(@) - 1) ]
    ELSE IF r \in 1..Len(card.content[card.cur])
    THEN [ card EXCEPT !.content[card.cur][r] = data ]
    ELSE card

ReplayLine(card, l) ==
    IF l.head = "select" THEN ReplaySelect(card, l.args[1])
    ELSE IF l.head = "update_binary" THEN ReplayUpdateBinary(card, l.args[1][1])
    ELSE IF l.head = "update_record"
    THEN ReplayUpdateRecord(card, ParseDec(l.args[1]), l.args[2][1])
    ELSE card

\* the lines from the i-th on, one after the other
RECURSIVE Replay(_, _, _)
Replay(card, lines, i) ==
    IF card.cur \notin Nodes \/ i > Len(lines) THEN card
    ELSE Replay(ReplayLine(card, lines[i]), lines, i + 1)

\* the card after a reset: MF selected, the same files with the same contents
ResetCard == [ cur |-> "MF", content |-> content ]

\* the nodes that hang in the tree
Attached == {"MF"} \cup Below("MF")

\* the EFs the last command selected for export, and those it exported to the
\* end: the select, every read and the closing select of ".." succeeded
SelectedEFs ==
    { e \in EFs : \E i \in 1..Len(log) :
                      log[i].op = "select" /\ log[i].target = e /\ log[i].sw = "9000" }
ExportedEFs ==
    { e \in EFs :
        \E i \in 1..Len(log) : \E j \in (i + 1)..Len(log) :
            /\ log[i].op = "select" /\ log[i].target = e /\ log[i].sw = "9000"
            /\ log[j].op = "select" /\ log[j].from = e /\ log[j].sw = "9000"
            /\ \A k \in (i + 1)..(j - 1) :
                   log[k].op # "select" /\ log[k].from = e /\ log[k].sw = "9000" }

IsSelectLine(l) == l.head = "select"
IsUpdateLine(l) == l.head \in {"update_binary", "update_record"}

\* the select lines, and the update lines, written while e was selected
SelectLinesOf(e) ==
    LET lines == SelectSeq(out, LAMBDA l : IsSelectLine(l) /\ l.at = e)
    IN  [ i \in 1..Len(lines) |-> Bare(lines[i]) ]
UpdateLinesOf(e) ==
    LET lines == SelectSeq(out, LAMBDA l : IsUpdateLine(l) /\ l.at = e)
    IN  [ i \in 1..Len(lines) |-> Bare(lines[i]) ]

(* C5: replaying the lines of an export against the reset card leaves every
   exported EF with the content it had, whatever its structure *)
C5_ReplayReproducesContent ==
    last.cmd = "export" =>
        \A e \in ExportedEFs : Replay(ResetCard, out, 1).content[e] = content[e]

(* C6: an exported EF has one update_binary line with its content if it is
   transparent, one update_record line per record with the indices 1..k in
   ascending order and the record of that index if it is linear_fixed or
   cyclic, and no update line otherwise *)
C6_UpdateLinesPerStructure ==
    last.cmd = "export" => \A e \in ExportedEFs : UpdateLinesOf(e) = UpdateScript(e)

C6_Witness ==
    /\ last.cmd = "export"
    /\ {"EF_ICCID", "EF_ADN", "EF_ACM", "EF_TLV"} \subseteq ExportedEFs
    /\ Len(UpdateLinesOf("EF_ACM")) = 2
    /\ Len(UpdateLinesOf("EF_TLV")) = 0

(* C7: the select lines of an EF that was selected for export are the names
   of the nodes from MF down to the EF, and replaying them from any selected
   file ends with that EF selected *)
C7_SelectLinesAreAbsolutePath ==
    last.cmd = "export" =>
        \A e \in SelectedEFs :
            /\ SelectLinesOf(e) = SelectScript(e)
            /\ \A c \in Attached :
                   Replay([ cur |-> c, content |-> content ], SelectLinesOf(e), 1).cur = e

C7_Witness ==
    /\ last.cmd = "export"
    /\ {"EF_PBR", "EF_IMSI_GSM", "EF_IMSI_USIM"} \subseteq SelectedEFs
    /\ Len(SelectLinesOf("EF_PBR")) = 4

\* a decimal number without a sign
IsDecimal(w) == Len(w) > 0 /\ \A i \in 1..Len(w) : \E d \in 0..9 : w[i] = Digit(d)
\* one path segment: not empty, no separator
IsSegment(w) == Len(w) > 0 /\ \A i \in 1..Len(w) : w[i] # "/"

(* C8: every line of an export is a comment or one of select <segment>,
   update_binary <hex>, update_record <index> <hex>; the walk adds no line of
   its own *)
C8_ExportLineForms ==
    last.cmd = "export" =>
        \A i \in 1..Len(out) :
            \/ out[i].head = "#"
            \/ out[i].head = "select" /\ Len(out[i].args) = 1 /\ IsSegment(out[i].args[1])
            \/ out[i].head = "update_binary" /\ Len(out[i].args) = 1
            \/ /\ out[i].head = "update_record"
               /\ Len(out[i].args) = 2
               /\ IsDecimal(out[i].args[1])

C8_Witness ==
    /\ ExportAllEnded
    /\ last.before = "MF"
    /\ \E i \in 1..Len(out) : IsBadFileLine(out[i])
    /\ \E i \in 1..Len(out) : out[i].head = "update_record"
    /\ \E i \in 1..Len(out) : out[i].head = "update_binary"
    /\ \E i \in 1..Len(log) : SelectsInto(i) /\ log[i].sw = "9000"

\* the select command named a file that is not there
NamedMissingFile == \E i \in 1..Len(log) : log[i].target = "none"

(* C9: a select of a path with an element that does not exist ends in an
   error and leaves the selected file, its path and the prompt as they were,
   and writes no descriptor *)
C9_FailedSelectChangesNothing ==
    last.cmd = "select" /\ NamedMissingFile =>
        /\ last.err # "none"
        /\ selected_file = last.before
        /\ prompt = last.prompt_before
        /\ \A i \in 1..Len(out) : out[i].head # "json"

C9_Witness ==
    /\ last.cmd = "select"
    /\ last.arg = <<N_DF_GSM, N_EF_DOESNOTEXIST>>
    /\ last.before = "MF"
    /\ Len(log) = 2
    /\ log[1].sw = "9000"
    /\ last.err = "PathNotFound"

\* the children of MF
MfChildren == { ChildrenOf("MF")[i] : i \in 1..Len(ChildrenOf("MF")) }

(* C10: once a SELECT has been issued, DF_TELECOM, DF_GSM and every
   application whose AID the card reported hang under MF; and when the shell
   starts to take commands, MF is selected *)
C10_RegisteredBeforeFirstSelect ==
    /\ selects_issued =>
           /\ {"DF_TELECOM", "DF_GSM"} \subseteq MfChildren
           /\ detected \subseteq MfChildren
    /\ pc = "idle" /\ last.cmd = "main" => selected_file = "MF"

C10_Witness ==
    /\ pc = "idle"
    /\ last.cmd = "main"
    /\ detected = {"ADF_USIM", "ADF_ISIM"}
    /\ apps = <<"ADF_ISIM", "ADF_USIM">>

-----------------------------------------------------------------------------
\* the last command was the export of one file, `export --filename`
ExportFileEnded == last.cmd = "export" /\ Len(last.arg) > 0

(* C11: when the export of one file ends, whether it succeeded or failed at
   its select or at one of its reads, and also for a path of several
   elements, the selected file is the one that was selected before *)
C11_ExportFileRestoresCursor == ExportFileEnded => selected_file = last.before

-----------------------------------------------------------------------------
IsFileLine(l) == l.head = "#" /\ Len(l.args) > 0 /\ l.args[1] = <<"file">>

\* the SELECTs into a directory, and the exports of a file, of the last command
SelectsIntoNode(d) == { i \in 1..Len(log) : SelectsInto(i) /\ log[i].target = d }
ExportsOfNode(e) == { i \in 1..Len(out) : IsFileLine(out[i]) /\ out[i].at = e }
ExportCalls == { i \in 1..Len(out) : IsDirectoryLine(out[i]) }

(* C12: a walk from MF without card failures ends normally; it selects into
   every DF and ADF of the tree once; in export mode it exports every EF of
   the tree once and nothing else *)
C12_WalkVisitsEachNodeOnce ==
    WalkEnded /\ last.before = "MF" /\ Faulted = {} =>
        /\ last.err = "none"
        /\ \A d \in Below("MF") :
               Kind(d) \in {"DF", "ADF"} => Cardinality(SelectsIntoNode(d)) = 1
        /\ ExportAllEnded =>
               /\ \A e \in Below("MF") \cap EFs : Cardinality(ExportsOfNode(e)) = 1
               /\ Cardinality(ExportCalls) = Cardinality(Below("MF") \cap EFs)

-----------------------------------------------------------------------------
\* the nodes below a node in depth-first pre-order: a node, then what is below
\* it, then its next sibling
RECURSIVE PreOrder(_)
RECURSIVE PreOrderFrom(_, _)
PreOrderFrom(ch, i) ==
    IF i > Len(ch) THEN <<>>
    ELSE <<ch[i]>> \o PreOrder(ch[i]) \o PreOrderFrom(ch, i + 1)
PreOrder(n) == PreOrderFrom(ChildrenOf(n), 1)

\* the number of levels between MF and a node
Depth(n) == Len(ChainTo(n)) - 1

\* the blanks a line begins with, and the line without them
RECURSIVE LeadingBlanks(_)
LeadingBlanks(text) ==
    IF Len(text) > 0 /\ text[1] = " " THEN 1 + LeadingBlanks(Tail(text)) ELSE 0
Unindented(text) == SubSeq(text, LeadingBlanks(text) + 1, Len(text))

\* the child a line of the listing names: a child of the directory that was
\* selected when the line was written
NamedBy(l) ==
    { c \in Nodes : /\ \E i \in 1..Len(ChildrenOf(l.at)) : ChildrenOf(l.at)[i] = c
                    /\ NameOf(c) = Unindented(l.args[1]) }
NodeOfLine(l) == CHOOSE c \in NamedBy(l) : TRUE

PlaceIn(order, n) == CHOOSE k \in 1..Len(order) : order[k] = n

\* the directories whose children the last command listed
Listed == {last.before} \cup { d \in Nodes : \E i \in SelectsIntoNode(d) : log[i].sw = "9000" }

(* C13: the output of tree is a depth-first pre-order listing: every line
   names one child of the directory being listed, indented by two blanks per
   level below the directory the command started in; no node is named twice;
   the nodes appear in pre-order, a directory before what is below it and
   all of that before its next sibling; and when the command ends without an
   error every child of every listed directory is named *)
C13_TreeListsPreOrder ==
    last.cmd = "tree" =>
        /\ \A i \in 1..Len(out) :
               /\ out[i].head = "name"
               /\ Cardinality(NamedBy(out[i])) = 1
               /\ LeadingBlanks(out[i].args[1])
                      = 2 * (Depth(NodeOfLine(out[i])) - Depth(last.before) - 1)
        /\ \A i \in 1..Len(out) : \A j \in (i + 1)..Len(out) :
               PlaceIn(PreOrder(last.before), NodeOfLine(out[i]))
                   < PlaceIn(PreOrder(last.before), NodeOfLine(out[j]))
        /\ last.err = "none" =>
               \A d \in Listed : \A k \in 1..Len(ChildrenOf(d)) :
                   \E i \in 1..Len(out) : NodeOfLine(out[i]) = ChildrenOf(d)[k]

C13_Witness ==
    /\ last.cmd = "tree"
    /\ last.before = "MF"
    /\ last.err = "none"
    /\ {"DF_PHONEBOOK", "DF_GSM", "ADF_USIM"} \subseteq Listed
    /\ \E i \in 1..Len(out) :
           NodeOfLine(out[i]) = "EF_PBR" /\ LeadingBlanks(out[i].args[1]) = 4

-----------------------------------------------------------------------------
\* the lines of the startup that report an AID with the USIM prefix
UsimLines == { i \in 1..Len(out) : out[i].head = " USIM:" }

(* C14: whatever AIDs the card reports, also several with the USIM prefix or
   several with the ISIM prefix, an application is attached to MF at most
   once, and no two children of MF have the same file identifier or name *)
C14_ApplicationAttachedOnce ==
    /\ \A a \in {"ADF_USIM", "ADF_ISIM"} :
           Cardinality({ i \in 1..Len(apps) : apps[i] = a }) <= 1
    /\ \A i \in 1..Len(ChildrenOf("MF")) : \A j \in (i + 1)..Len(ChildrenOf("MF")) :
           /\ FidOf(ChildrenOf("MF")[i]) # FidOf(ChildrenOf("MF")[j])
           /\ NameOf(ChildrenOf("MF")[i]) # NameOf(ChildrenOf("MF")[j])

C14_Witness ==
    /\ pc = "idle"
    /\ last.cmd = "main"
    /\ \E i \in UsimLines : \E j \in UsimLines : out[i].args # out[j].args
    /\ apps = <<"ADF_USIM">>

-----------------------------------------------------------------------------
\* the read commands issued to a file by the last command
ReadsOf(e) == { i \in 1..Len(log) : log[i].op \in {"read_binary", "read_record"}
                                    /\ log[i].target = e }

(* C15: in an export no read command is issued twice for the same file and
   record, and after a read of a file has failed no read is issued for that
   file any more *)
C15_NoReadRetry ==
    last.cmd = "export" =>
        \A e \in EFs :
            /\ \A i \in ReadsOf(e) : \A j \in ReadsOf(e) :
                   log[i].op = log[j].op /\ log[i].idx = log[j].idx => i = j
            /\ \A i \in ReadsOf(e) : log[i].sw # "9000" => \A j \in ReadsOf(e) : j <= i

C15_Witness ==
    /\ ExportAllEnded
    /\ Cardinality(ReadsOf("EF_PBR")) = 2
    /\ \E i \in ReadsOf("EF_ADN") : log[i].idx = 1 /\ log[i].sw = "9000"
    /\ \E j \in ReadsOf("EF_ADN") : log[j].idx = 2 /\ log[j].sw # "9000"

-----------------------------------------------------------------------------
\* a SELECT from a directory down to one of its children
SelectsDown(i) ==
    /\ log[i].op = "select"
    /\ log[i].target \in Nodes \ {"MF"}
    /\ log[i].from = ParentOf(log[i].target)

(* C16: a walk that meets no card failure descends into every DF and ADF
   below the directory it started in and into nothing else, and in export
   mode exports every EF below it and nothing else, however the nodes are
   named *)
C16_DescendsByKind ==
    WalkEnded /\ Faulted = {} /\ last.err = "none" =>
        /\ \A c \in Below(last.before) :
               Kind(c) \in {"DF", "ADF"} => SelectsIntoNode(c) # {}
        /\ last.cmd = "tree" =>
               \A i \in 1..Len(log) : SelectsDown(i) => Kind(log[i].target) \in {"DF", "ADF"}
        /\ ExportAllEnded =>
               \A c \in Below(last.before) : Kind(c) = "EF" <=> ExportsOfNode(c) # {}

-----------------------------------------------------------------------------
(* C17: when a shell command has ended (select, tree, export, or a change of
   numeric_path), with or without an error, the prompt shows the path of the
   selected file: by name when numeric_path is false, by file identifier when
   it is true *)
C17_PromptShowsSelectedFile ==
    last.cmd \in {"select", "tree", "export", "set"} =>
        prompt = Join(fully_qualified_path(selected_file, ~numeric_path))

====
